---------------------------- MODULE Spec2Model ----------------------------
(***************************************************************************)
(* A model of adjei_sampling_rs (src/src/main.rs): the randomized          *)
(* matched-pairs resampling run.                                           *)
(*                                                                         *)
(* main() reads the rows, partitions them into all_big_boys (the reference *)
(* pool, condition = "Big-Group") and all_small_boys (everything else),    *)
(* and then, `iterations` times: clones both vectors, shuffles small_boys, *)
(* pairs every small record with the nearest remaining big record          *)
(* (stable sort by descending |pre difference|, then pop), runs paired_t   *)
(* on the post values, computes the means and standard deviations of the   *)
(* matched records and pushes one Output.  After the loop it writes        *)
(* iterations.csv, computes the cross-iteration means and standard         *)
(* deviations and proportion_significant, and prints the report.           *)
(*                                                                         *)
(* Numbers.  An f64 read from the input is a small integer, NaN or an      *)
(* infinity; on these the subtraction, absolute value and comparison of    *)
(* the code are exact.  An Instance keeps its four measurements (pre,      *)
(* post, mid, gain); condition has been consumed by the partition.  `id`   *)
(* is the record's index in its canonical vector: it gives the elements    *)
(* of a Vec their identity.  Of an Output the model keeps the two t-test   *)
(* fields; its sixteen means and standard deviations are finite whenever   *)
(* the Output exists (a non-finite measurement ends the run before the     *)
(* push) and no decision of the program reads them.                        *)
(*                                                                         *)
(* A t value is NaN, +/-infinity or sgn * sqrt(num/den), kept exactly.     *)
(* A density value (Output.post_t_pvalue) is NaN, 0.0 (the density at an   *)
(* infinite t) or the Student-t density with nu degrees of freedom at      *)
(* t^2 = num/den, kept unevaluated; its comparison with 0.05 is decided    *)
(* exactly from the point where the density crosses 0.05.                  *)
(*                                                                         *)
(* Library behaviour the program rests on:                                 *)
(*   statistical::mean of an empty slice is 0.0/0.0 = NaN;                 *)
(*   statistical::standard_deviation asserts len > 1 and panics otherwise, *)
(*   and asserts that the sum of squared deviations is >= 0, which is      *)
(*   false when the sum is NaN: a series holding a NaN or an infinity      *)
(*   (inf - mean = inf - inf = NaN) panics too;                            *)
(*   csv::Writer buffers the serialized records, writes the buffer to the  *)
(*   file whenever it is full and once more when it is dropped (at the end *)
(*   of main, or while a panic unwinds), ignoring an error of that last    *)
(*   write;                                                                *)
(*   statrs StudentsT::new(0, 1, freedom) is an Err for freedom <= 0;      *)
(*   Vec::sort_by is a stable sort, on a slice of up to 20 elements an     *)
(*   insertion sort that moves each element left past the elements it      *)
(*   sorts before; on a longer slice whose comparator is no total order    *)
(*   its result is unspecified: some order of the elements, or a panic;    *)
(*   Vec::with_capacity aborts the process when the allocation fails;      *)
(*   Vec::pop of an empty Vec is None and unwrap() of None panics;         *)
(*   println! panics when stdout cannot be written.                        *)
(***************************************************************************)
EXTENDS Integers, Sequences, FiniteSets

VARIABLES
  pc,              \* where main() stands
  panic,           \* which unwrap/assert ended the run ("none" while it runs)
  all_big_boys,    \* line 97: the canonical reference pool
  all_small_boys,  \* line 97: the canonical to-be-matched population
  iterations,      \* lines 101-111: the parsed --iterations argument
  iter,            \* the number of loop bodies of line 111 started so far
  big_boys,        \* line 113: this iteration's remaining pool
  small_boys,      \* line 114/119: this iteration's records still to be drained
  matches,         \* line 116: this iteration's pairs
  outputs,         \* line 101: the iteration log
  csv_written,     \* line 200: iterations.csv has been created
  csv_buffer,      \* lines 201-203: the rows serialized into the writer
  csv_rows,        \* the rows that have reached iterations.csv
  means_computed,  \* lines 205-280: the cross-iteration means exist
  proportion,      \* lines 430-431: proportion_significant (<<>> until computed)
  past_matches     \* history: the pair lists of the completed matching loops

vars == <<pc, panic, all_big_boys, all_small_boys, iterations, iter, big_boys,
          small_boys, matches, outputs, csv_written, csv_buffer, csv_rows,
          means_computed, proportion, past_matches>>

---------------------------------------------------------------------------
(* Bounds of the model.                                                    *)

MaxBig == 3

MaxSmall == 2

MaxIter == 2

---------------------------------------------------------------------------
(* f64 values of the input and their arithmetic.                           *)

F64(v) == [kind |-> "fin", val |-> v]

F64NaN == [kind |-> "nan", val |-> 0]

(* +infinity (s = 1) or -infinity (s = -1).                                *)
F64Inf(s) == [kind |-> "inf", val |-> s]

(* f64::is_finite, negated (of an input value, a t value or a density).    *)
NonFinite(x) == x.kind \in {"nan", "inf"}

(* x - y on f64: NaN with a NaN operand and for inf - inf.                 *)
Sub(x, y) ==
  IF x.kind = "nan" \/ y.kind = "nan" THEN F64NaN
  ELSE IF x.kind = "inf" /\ y.kind = "inf"
       THEN (IF x.val = y.val THEN F64NaN ELSE x)
  ELSE IF x.kind = "inf" THEN x
  ELSE IF y.kind = "inf" THEN F64Inf(-y.val)
  ELSE F64(x.val - y.val)

Abs(x) == IF x < 0 THEN -x ELSE x

(* f64::abs, line 127.                                                     *)
AbsF64(x) ==
  IF x.kind = "nan" THEN F64NaN
  ELSE IF x.kind = "inf" THEN F64Inf(1)
  ELSE F64(Abs(x.val))

(* f64::partial_cmp, line 128: "None" when an operand is NaN.              *)
partial_cmp(x, y) ==
  IF x.kind = "nan" \/ y.kind = "nan" THEN "None"
  ELSE LET xv == IF x.kind = "inf" THEN x.val ELSE 0
           yv == IF y.kind = "inf" THEN y.val ELSE 0
           xf == IF x.kind = "fin" THEN x.val ELSE 0
           yf == IF y.kind = "fin" THEN y.val ELSE 0
       IN IF xv < yv \/ (xv = yv /\ xf < yf) THEN "Less"
          ELSE IF xv = yv /\ xf = yf THEN "Equal"
          ELSE "Greater"

(* Option::unwrap_or(Ordering::Equal), line 129.                           *)
unwrap_or_Equal(o) == IF o = "None" THEN "Equal" ELSE o

(* Ordering::reverse, line 130.                                            *)
reverse(o) ==
  IF o = "Less" THEN "Greater" ELSE IF o = "Greater" THEN "Less" ELSE o

(* The measurements the input rows are drawn from:                         *)
(* <<pre, post, mid, gain>>.  The last kind of each set holds a non-finite *)
(* value.                                                                  *)
BigKinds ==
  {<<F64(2), F64(0), F64(1), F64(-2)>>,
   <<F64(4), F64(2), F64(3), F64(-2)>>,
   <<F64Inf(1), F64(0), F64(1), F64Inf(-1)>>}

SmallKinds ==
  {<<F64(3), F64(1), F64(2), F64(-2)>>,
   <<F64(4), F64(2), F64(3), F64(-2)>>,
   <<F64(3), F64NaN, F64(2), F64NaN>>}

SeqsUpTo(S, n) == UNION {[1..k -> S] : k \in 0..n}

(* struct Instance, lines 15-24, with its index in the canonical vector.   *)
MkPopulation(kinds) ==
  [i \in 1..Len(kinds) |->
     [id |-> i, pre |-> kinds[i][1], post |-> kinds[i][2],
      mid |-> kinds[i][3], gain |-> kinds[i][4]]]

---------------------------------------------------------------------------
(* Arithmetic helpers.                                                     *)

Sgn(x) == IF x < 0 THEN -1 ELSE IF x = 0 THEN 0 ELSE 1

RECURSIVE Gcd(_, _)
Gcd(a, b) == IF b = 0 THEN a ELSE Gcd(b, a % b)

RECURSIVE Sum(_)
Sum(v) == IF v = <<>> THEN 0 ELSE Head(v) + Sum(Tail(v))

RECURSIVE SumSq(_)
SumSq(v) == IF v = <<>> THEN 0 ELSE Head(v) * Head(v) + SumSq(Tail(v))

Last(s) == s[Len(s)]

Front(s) == SubSeq(s, 1, Len(s) - 1)

(* statistical::standard_deviation(series, None) panics: on fewer than two *)
(* values, and on a series holding a NaN or an infinity.                   *)
standard_deviation_panics(series) ==
  \/ Len(series) < 2
  \/ \E i \in 1..Len(series) : NonFinite(series[i])

---------------------------------------------------------------------------
(* The matcher, lines 121-140.                                             *)

(* (a.pre - record.pre).abs(), lines 126-128.                              *)
Dist(a, record) == AbsF64(Sub(a.pre, record.pre))

(* The comparator without its .reverse(): nearer records sort first.       *)
SortsBeforeAsc(a, b, record) ==
  unwrap_or_Equal(partial_cmp(Dist(a, record), Dist(b, record))) = "Less"

(* The comparator of lines 125-131:                                        *)
(* partial_cmp(...).unwrap_or(Equal).reverse().  "Less" (a sorts before b) *)
(* exactly when a is farther from record than b; a NaN distance compares   *)
(* Equal to every distance.                                                *)
SortsBefore(a, b, record) ==
  reverse(unwrap_or_Equal(partial_cmp(Dist(a, record), Dist(b, record)))) = "Less"

(* An insertion that moves x left past the elements it compares equal to   *)
(* as well, as a sort that is not stable may.                              *)
RECURSIVE InsertUnstable(_, _, _)
InsertUnstable(sorted, x, record) ==
  IF sorted = <<>> THEN <<x>>
  ELSE IF ~SortsBefore(Last(sorted), x, record)
       THEN InsertUnstable(Front(sorted), x, record) \o <<Last(sorted)>>
       ELSE sorted \o <<x>>

(* One insertion of the stable sort: x, which stood after every element of *)
(* `sorted` in the input, moves left past the elements it sorts before and *)
(* stops behind the first one it does not (so equal elements keep their    *)
(* input order).                                                           *)
RECURSIVE Insert(_, _, _)
Insert(sorted, x, record) ==
  IF sorted = <<>> THEN <<x>>
  ELSE IF SortsBefore(x, Last(sorted), record)
       THEN Insert(Front(sorted), x, record) \o <<Last(sorted)>>
       ELSE sorted \o <<x>>

(* big_boys.sort_by(...), lines 125-131: stable, descending distance.      *)
RECURSIVE SortByDistance(_, _)
SortByDistance(pool, record) ==
  IF pool = <<>> THEN <<>>
  ELSE Insert(SortByDistance(Front(pool), record), Last(pool), record)

(* The longest slice that sort_by sorts by insertion.                      *)
InsertionSortLimit == 20

(* The comparator of lines 125-131 is a total order on the pool: records   *)
(* neither of which sorts before the other form classes (it is not when a  *)
(* NaN distance compares Equal to two distances that differ).              *)
ComparatorIsTotalOrder(pool, record) ==
  LET n == Len(pool)
      tied(i, j) == /\ ~SortsBefore(pool[i], pool[j], record)
                    /\ ~SortsBefore(pool[j], pool[i], record)
  IN \A i, j, k \in 1..n : (tied(i, j) /\ tied(j, k)) => tied(i, k)

(* sort_by's result on this pool is unspecified.                           *)
SortIsUnspecified(pool, record) ==
  Len(pool) > InsertionSortLimit /\ ~ComparatorIsTotalOrder(pool, record)

(* A read of the last element (last().cloned()) that leaves it in the pool. *)
PoolAfterPopKeeps(sorted) == sorted

(* What big_boys.pop() leaves in the pool, line 134.                       *)

PoolAfterPop(sorted) == Front(sorted)

---------------------------------------------------------------------------
(* paired_t, lines 478-497.                                                *)

NaN == [kind |-> "nan", sgn |-> 0, num |-> 0, den |-> 1]

Infinite(s) == [kind |-> "inf", sgn |-> s, num |-> 0, den |-> 1]

(* sgn * sqrt(n / d), the fraction reduced.                                *)
Finite(s, n, d) ==
  [kind |-> "fin", sgn |-> s, num |-> n \div Gcd(n, d), den |-> d \div Gcd(n, d)]

DensityNaN == [kind |-> "nan", nu |-> 0, num |-> 0, den |-> 1]

DensityZero == [kind |-> "zero", nu |-> 0, num |-> 0, den |-> 1]

DensityAt(nu, n, d) == [kind |-> "density", nu |-> nu, num |-> n, den |-> d]

(* t_tester.pdf(t), line 494: NaN at NaN, 0.0 at an infinite t.            *)
Pdf(t, nu) ==
  CASE t.kind = "nan" -> DensityNaN
    [] t.kind = "inf" -> DensityZero
    [] OTHER -> DensityAt(nu, t.num, t.den)

(* dbar / se_dbar, lines 486-491, for n >= 2 finite differences d.  With   *)
(* S = sum d and Q = n * sum d^2 - S^2 (n times the sum of squared         *)
(* deviations), sd = 0 exactly when Q = 0 and t^2 = S^2 (n - 1) / Q.       *)
TValue(d) ==
  LET n == Len(d)
      S == Sum(d)
      Q == n * SumSq(d) - S * S
  IN IF Q = 0
     THEN (IF S = 0 THEN NaN ELSE Infinite(Sgn(S)))
     ELSE Finite(Sgn(S), S * S * (n - 1), Q)

(* paired_t.  standard_deviation(&d, None) at line 487 ends the run there  *)
(* when d has fewer than two elements or holds a non-finite difference.    *)
paired_t(a, b) ==
  LET n == Len(a)
      d == [i \in 1..n |-> Sub(a[i], b[i])]
      dv == [i \in 1..n |-> d[i].val]
  IN IF standard_deviation_panics(d)
     THEN [panicked |-> TRUE, t |-> NaN, p |-> DensityNaN]
     ELSE [panicked |-> FALSE, t |-> TValue(dv), p |-> Pdf(TValue(dv), n - 1)]

(* struct Output, lines 32-56: the two t-test fields.                      *)
MkOutput(r) == [post_t_pvalue |-> r.p, post_t_tvalue |-> r.t]

---------------------------------------------------------------------------
(* The aggregator's proportion, lines 430-431.                             *)

ThresholdScale == 1000000

(* The t^2 at which the Student-t density with nu degrees of freedom       *)
(* equals 0.05, in units of 1/ThresholdScale (the density falls as t^2     *)
(* grows, so it is below 0.05 exactly beyond this point).  The table       *)
(* covers 1 to 30 degrees of freedom, that is up to 31 pairs; it has no    *)
(* value for any other nu.                                                 *)
CriticalTSquared(nu) ==
  CASE nu = 1 -> 5366198
    [] nu = 2 -> 5368063
    [] nu = 3 -> 5133847
    [] nu = 4 -> 4955390
    [] nu = 5 -> 4827083
    [] nu = 6 -> 4732513
    [] nu = 7 -> 4660531
    [] nu = 8 -> 4604130
    [] nu = 9 -> 4558844
    [] nu = 10 -> 4521728
    [] nu = 11 -> 4490778
    [] nu = 12 -> 4464589
    [] nu = 13 -> 4442149
    [] nu = 14 -> 4422711
    [] nu = 15 -> 4405715
    [] nu = 16 -> 4390729
    [] nu = 17 -> 4377419
    [] nu = 18 -> 4365518
    [] nu = 19 -> 4354815
    [] nu = 20 -> 4345138
    [] nu = 21 -> 4336348
    [] nu = 22 -> 4328326
    [] nu = 23 -> 4320978
    [] nu = 24 -> 4314222
    [] nu = 25 -> 4307990
    [] nu = 26 -> 4302222
    [] nu = 27 -> 4296869
    [] nu = 28 -> 4291887
    [] nu = 29 -> 4287240
    [] nu = 30 -> 4282895

(* e.post_t_pvalue < 0.05, line 431, as f64 compares: false for NaN.       *)
BelowThreshold(p) ==
  CASE p.kind = "nan" -> FALSE
    [] p.kind = "zero" -> TRUE
    [] OTHER -> p.num * ThresholdScale > CriticalTSquared(p.nu) * p.den

(* outputs.iter().filter(|e| e.post_t_pvalue < 0.05).count()               *)
RECURSIVE CountSignificant(_)
CountSignificant(log) ==
  IF log = <<>> THEN 0
  ELSE (IF BelowThreshold(Head(log).post_t_pvalue) THEN 1 ELSE 0)
       + CountSignificant(Tail(log))

(* count as f64 / outputs.len() as f64: the quotient kept as the pair      *)
(* <<count, len>> (<<0, 0>>, that is 0.0 / 0.0 = NaN, for an empty log).   *)
proportion_significant(log) == <<CountSignificant(log), Len(log)>>

---------------------------------------------------------------------------
(* The run.                                                                *)

Init ==
  /\ pc = "load"
  /\ panic = "none"
  /\ all_big_boys = <<>>
  /\ all_small_boys = <<>>
  /\ iterations = 0
  /\ iter = 0
  /\ big_boys = <<>>
  /\ small_boys = <<>>
  /\ matches = <<>>
  /\ outputs = <<>>
  /\ csv_written = FALSE
  /\ csv_buffer = <<>>
  /\ csv_rows = <<>>
  /\ means_computed = FALSE
  /\ proportion = <<>>
  /\ past_matches = {}

Panic(why) == pc' = "panicked" /\ panic' = why

(* Lines 58-69 and 94 when an unwrap() fails: the file cannot be opened or *)
(* a row does not parse.  Nothing has been loaded.                         *)
ReadInputFails ==
  /\ pc = "load"
  /\ Panic("input")
  /\ UNCHANGED <<all_big_boys, all_small_boys, iterations, iter, big_boys,
                 small_boys, matches, outputs, csv_written, csv_buffer, csv_rows,
                 means_computed, proportion, past_matches>>

(* Lines 94-108: the rows are read and partitioned, the count is parsed.   *)
ReadInput ==
  /\ pc = "load"
  /\ \E bk \in SeqsUpTo(BigKinds, MaxBig), sk \in SeqsUpTo(SmallKinds, MaxSmall),
        n \in 0..MaxIter :
       /\ all_big_boys' = MkPopulation(bk)
       /\ all_small_boys' = MkPopulation(sk)
       /\ iterations' = n
  /\ pc' = "loop"
  /\ UNCHANGED <<panic, iter, big_boys, small_boys, matches, outputs,
                 csv_written, csv_buffer, csv_rows, means_computed, proportion,
                 past_matches>>

(* Lines 94-111 when an unwrap() of lines 104, 106 or 111 fails, after the *)
(* partition of line 97: --iterations is missing, is no usize, or is no    *)
(* i32.  Both populations are loaded, no iteration has started.            *)
IterationsArgFails ==
  /\ pc = "load"
  /\ \E bk \in SeqsUpTo(BigKinds, MaxBig), sk \in SeqsUpTo(SmallKinds, MaxSmall) :
       /\ all_big_boys' = MkPopulation(bk)
       /\ all_small_boys' = MkPopulation(sk)
  /\ Panic("input")
  /\ UNCHANGED <<iterations, iter, big_boys, small_boys, matches, outputs,
                 csv_written, csv_buffer, csv_rows, means_computed, proportion,
                 past_matches>>

(* Lines 94-107 when Vec::with_capacity(iterations) of line 101 cannot     *)
(* allocate (a count too large for the memory): the process aborts, which  *)
(* is no panic, with both populations loaded.                              *)
AllocateOutputsAborts ==
  /\ pc = "load"
  /\ \E bk \in SeqsUpTo(BigKinds, MaxBig), sk \in SeqsUpTo(SmallKinds, MaxSmall) :
       /\ all_big_boys' = MkPopulation(bk)
       /\ all_small_boys' = MkPopulation(sk)
  /\ pc' = "aborted"
  /\ UNCHANGED <<panic, iterations, iter, big_boys, small_boys, matches, outputs,
                 csv_written, csv_buffer, csv_rows, means_computed, proportion,
                 past_matches>>

Permutations(n) == {f \in [1..n -> 1..n] : \A i, j \in 1..n : f[i] = f[j] => i = j}

(* all_big_boys.clone() kept outside the loop.                             *)
StaleBigBoys == IF iter = 0 THEN all_big_boys ELSE big_boys

(* all_big_boys.clone(), line 113.                                         *)
CloneBigBoys == all_big_boys

(* Lines 111-119: one more iteration starts; both vectors are cloned and   *)
(* small_boys is shuffled by the thread's generator.                       *)
StartIteration ==
  /\ pc = "loop"
  /\ iter < iterations
  /\ iter' = iter + 1
  /\ big_boys' = CloneBigBoys
  /\ \E f \in Permutations(Len(all_small_boys)) :
       small_boys' = [i \in 1..Len(all_small_boys) |-> all_small_boys[f[i]]]
  /\ matches' = <<>>
  /\ pc' = "match"
  /\ UNCHANGED <<panic, all_big_boys, all_small_boys, iterations, outputs,
                 csv_written, csv_buffer, csv_rows, means_computed, proportion,
                 past_matches>>

(* A matching step that skips a record when the pool is empty.             *)
MatchStepSkipsEmpty ==
  /\ pc = "match"
  /\ small_boys # <<>>
  /\ LET record == Head(small_boys)
         sorted == SortByDistance(big_boys, record)
     IN IF sorted = <<>>
        THEN /\ small_boys' = Tail(small_boys)
             /\ UNCHANGED <<big_boys, matches, pc, panic>>
        ELSE /\ big_boys' = PoolAfterPop(sorted)
             /\ matches' = Append(matches, [small |-> record, big |-> Last(sorted)])
             /\ small_boys' = Tail(small_boys)
             /\ UNCHANGED <<pc, panic>>
  /\ UNCHANGED <<all_big_boys, all_small_boys, iterations, iter, outputs,
                 csv_written, csv_buffer, csv_rows, means_computed, proportion,
                 past_matches>>

(* A matching step that takes any one of the records sorted last at the    *)
(* same distance, as a pop after sort_unstable_by may.                     *)
MatchStepAnyNearest ==
  /\ pc = "match"
  /\ small_boys # <<>>
  /\ LET record == Head(small_boys)
         sorted == SortByDistance(big_boys, record)
     IN IF sorted = <<>>
        THEN /\ Panic("pop")
             /\ small_boys' = Tail(small_boys)
             /\ UNCHANGED <<big_boys, matches>>
        ELSE /\ \E k \in 1..Len(sorted) :
                  /\ ~SortsBefore(sorted[k], Last(sorted), record)
                  /\ big_boys' = SubSeq(sorted, 1, k - 1)
                                   \o SubSeq(sorted, k + 1, Len(sorted))
                  /\ matches' = Append(matches, [small |-> record, big |-> sorted[k]])
             /\ small_boys' = Tail(small_boys)
             /\ UNCHANGED <<pc, panic>>
  /\ UNCHANGED <<all_big_boys, all_small_boys, iterations, iter, outputs,
                 csv_written, csv_buffer, csv_rows, means_computed, proportion,
                 past_matches>>

(* Lines 121-140, one pass of the drain loop: sort the pool, pop its last  *)
(* element (unwrap() panics on an empty pool), push the pair.  Where the   *)
(* sort's result is unspecified the pool comes out in some order, or the   *)
(* sort panics.                                                            *)
MatchStep ==
  /\ pc = "match"
  /\ small_boys # <<>>
  /\ LET record == Head(small_boys)
         sorted == SortByDistance(big_boys, record)
     IN IF big_boys = <<>>
        THEN /\ Panic("pop")
             /\ small_boys' = Tail(small_boys)
             /\ UNCHANGED <<big_boys, matches>>
        ELSE IF SortIsUnspecified(big_boys, record)
        THEN \E f \in Permutations(Len(big_boys)), panics \in BOOLEAN :
               LET some == [i \in 1..Len(big_boys) |-> big_boys[f[i]]]
               IN /\ small_boys' = Tail(small_boys)
                  /\ IF panics
                     THEN /\ Panic("sort")
                          /\ big_boys' = some
                          /\ UNCHANGED matches
                     ELSE /\ big_boys' = PoolAfterPop(some)
                          /\ matches' = Append(matches, [small |-> record,
                                                         big |-> Last(some)])
                          /\ UNCHANGED <<pc, panic>>
        ELSE /\ big_boys' = PoolAfterPop(sorted)
             /\ matches' = Append(matches, [small |-> record, big |-> Last(sorted)])
             /\ small_boys' = Tail(small_boys)
             /\ UNCHANGED <<pc, panic>>
  /\ UNCHANGED <<all_big_boys, all_small_boys, iterations, iter, outputs,
                 csv_written, csv_buffer, csv_rows, means_computed, proportion,
                 past_matches>>

(* matches.iter().map(|e| e.small.post) and (|e| e.big.post), lines 143-144 *)
SmallPosts == [i \in 1..Len(matches) |-> matches[i].small.post]

BigPosts == [i \in 1..Len(matches) |-> matches[i].big.post]

(* matches.iter().map(|e| e.<side>.<field>), lines 148-190.                *)
Column(side, field) == [i \in 1..Len(matches) |-> matches[i][side][field]]

(* One of the eight standard_deviation calls of lines 158-190 panics: a    *)
(* pre, post, mid or gain of a matched record is not finite (or there are  *)
(* fewer than two pairs).                                                  *)
OutputStdevPanics ==
  \E side \in {"small", "big"}, field \in {"pre", "post", "mid", "gain"} :
    standard_deviation_panics(Column(side, field))

(* Lines 142-196, after the drain loop has ended: paired_t, the means and  *)
(* standard deviations of the Output, outputs.push.                        *)
FinishIteration ==
  /\ pc = "match"
  /\ small_boys = <<>>
  /\ past_matches' = past_matches \cup {matches}
  /\ LET r == paired_t(SmallPosts, BigPosts)
     IN IF r.panicked
        THEN Panic("ttest") /\ UNCHANGED outputs
        ELSE IF OutputStdevPanics
        THEN Panic("stats") /\ UNCHANGED outputs
        ELSE /\ outputs' = Append(outputs, MkOutput(r))
             /\ pc' = "loop"
             /\ UNCHANGED panic
  /\ UNCHANGED <<all_big_boys, all_small_boys, iterations, iter, big_boys,
                 small_boys, matches, csv_written, csv_buffer, csv_rows,
                 means_computed, proportion>>

Prefixes(rows) == {SubSeq(rows, 1, j) : j \in 0..Len(rows)}

(* What the file may hold once the writer has been dropped: the rows it    *)
(* held before, and of the buffered rows all, or fewer when the write of   *)
(* the drop fails.                                                         *)
RowsAfterDrop == {rows \in Prefixes(csv_buffer) : Len(rows) >= Len(csv_rows)}

(* Line 200 when csv::Writer::from_path(..).unwrap() fails: the file       *)
(* cannot be created, and the run ends with no file.                       *)
CreateIterationsFails ==
  /\ pc = "loop"
  /\ iter = iterations
  /\ Panic("csv")
  /\ UNCHANGED <<all_big_boys, all_small_boys, iterations, iter, big_boys,
                 small_boys, matches, outputs, csv_written, csv_buffer, csv_rows,
                 means_computed, proportion, past_matches>>

(* Lines 200-202 when writer.serialize(record).unwrap() fails on record k: *)
(* the file exists, and the unwinding drop of the writer leaves in it the  *)
(* k - 1 records serialized before, or fewer when its write fails too.     *)
SerializeIterationsFails ==
  /\ pc = "loop"
  /\ iter = iterations
  /\ \E k \in 1..Len(outputs) :
       /\ csv_buffer' = SubSeq(outputs, 1, k - 1)
       /\ csv_rows' \in Prefixes(SubSeq(outputs, 1, k - 1))
  /\ csv_written' = TRUE
  /\ Panic("csv")
  /\ UNCHANGED <<all_big_boys, all_small_boys, iterations, iter, big_boys,
                 small_boys, matches, outputs, means_computed, proportion,
                 past_matches>>

(* Lines 199-203, after the last iteration: iterations.csv is created and  *)
(* every Output serialized into the writer.  The writer writes its buffer  *)
(* to the file each time it is full, so some first rows of a long log (how *)
(* many depends on their printed lengths, which the model does not keep)   *)
(* are in the file already; the others stay buffered.                      *)
WriteIterations ==
  /\ pc = "loop"
  /\ iter = iterations
  /\ csv_written' = TRUE
  /\ csv_buffer' = outputs
  /\ csv_rows' \in Prefixes(outputs)
  /\ pc' = "means"
  /\ UNCHANGED <<panic, all_big_boys, all_small_boys, iterations, iter, big_boys,
                 small_boys, matches, outputs, means_computed, proportion,
                 past_matches>>

(* Lines 205-280: the means across iterations (NaN over an empty log).     *)
ComputeMeans ==
  /\ pc = "means"
  /\ means_computed' = TRUE
  /\ pc' = "stdevs"
  /\ UNCHANGED <<panic, all_big_boys, all_small_boys, iterations, iter, big_boys,
                 small_boys, matches, outputs, csv_written, csv_buffer, csv_rows,
                 proportion, past_matches>>

(* One of the standard_deviation calls of lines 281-428 over a field of    *)
(* the log panics: on fewer than two Outputs (the first call, line 281),   *)
(* and on a log that holds a non-finite density or t value (lines          *)
(* 361-374).  The other fields of an Output are finite.                    *)
StdevPanics(log) ==
  \/ standard_deviation_panics([i \in 1..Len(log) |-> log[i].post_t_pvalue])
  \/ standard_deviation_panics([i \in 1..Len(log) |-> log[i].post_t_tvalue])

(* Lines 281-471: the standard deviations across iterations,               *)
(* proportion_significant and the printed report.  The writer is dropped   *)
(* when main ends or unwinds.                                              *)
ComputeStdevsAndReport ==
  /\ pc = "stdevs"
  /\ IF StdevPanics(outputs)
     THEN Panic("aggregate") /\ UNCHANGED proportion
     ELSE /\ proportion' = proportion_significant(outputs)
          /\ pc' = "done"
          /\ UNCHANGED panic
  /\ csv_rows' \in RowsAfterDrop
  /\ UNCHANGED <<all_big_boys, all_small_boys, iterations, iter, big_boys,
                 small_boys, matches, outputs, csv_written, csv_buffer,
                 means_computed, past_matches>>

(* Lines 281-471 when a println! of lines 433-471 fails (stdout cannot be  *)
(* written): the standard deviations and proportion_significant have been  *)
(* computed, the run ends in a panic without a complete report, and the    *)
(* unwinding drops the writer.                                             *)
ReportFails ==
  /\ pc = "stdevs"
  /\ ~StdevPanics(outputs)
  /\ proportion' = proportion_significant(outputs)
  /\ Panic("print")
  /\ csv_rows' \in RowsAfterDrop
  /\ UNCHANGED <<all_big_boys, all_small_boys, iterations, iter, big_boys,
                 small_boys, matches, outputs, csv_written, csv_buffer,
                 means_computed, past_matches>>

Next ==
  \/ ReadInputFails
  \/ IterationsArgFails
  \/ AllocateOutputsAborts
  \/ ReadInput
  \/ StartIteration
  \/ MatchStep
  \/ FinishIteration
  \/ CreateIterationsFails
  \/ SerializeIterationsFails
  \/ WriteIterations
  \/ ComputeMeans
  \/ ComputeStdevsAndReport
  \/ ReportFails

Spec == Init /\ [][Next]_vars

---------------------------------------------------------------------------
(* Properties.                                                             *)

(* x < y and x <= y on f64: false when an operand is NaN.                  *)
Lt(x, y) == partial_cmp(x, y) = "Less"

Le(x, y) == partial_cmp(x, y) \in {"Less", "Equal"}

(* |A| >= |B| > 0, once the populations are loaded.                        *)
PreconditionHolds ==
  /\ pc # "load"
  /\ Len(all_big_boys) >= Len(all_small_boys)
  /\ Len(all_small_boys) > 0

(* The drain loop of lines 121-140 has ended and line 142 is next.         *)
MatcherReturned == pc = "match" /\ small_boys = <<>>

(* A pass of the drain loop that pushed a pair.                            *)
PairPushed == pc = "match" /\ Len(matches') = Len(matches) + 1

BigIds(ms) == {ms[i].big.id : i \in 1..Len(ms)}

SmallOrder(ms) == [i \in 1..Len(ms) |-> ms[i].small]

(* C1: with |A| >= |B| > 0 the matching loop never fails on the pop, and   *)
(* when it ends it has produced exactly |B| pairs in which every element   *)
(* of B is the small side of exactly one pair, every element of A the big  *)
(* side of at most one, and the used A-elements number |B|.                *)
C1_MatchingCompleteness ==
  PreconditionHolds =>
    /\ panic # "pop"
    /\ MatcherReturned =>
         /\ Len(matches) = Len(all_small_boys)
         /\ \A b \in 1..Len(all_small_boys) :
              Cardinality({i \in 1..Len(matches) :
                             matches[i].small = all_small_boys[b]}) = 1
         /\ \A a \in 1..Len(all_big_boys) :
              Cardinality({i \in 1..Len(matches) :
                             matches[i].big = all_big_boys[a]}) <= 1
         /\ \A i \in 1..Len(matches) :
              \E a \in 1..Len(all_big_boys) : matches[i].big = all_big_boys[a]
         /\ Cardinality(BigIds(matches)) = Len(all_small_boys)

(* A matching loop that ended with two pairs drawn from a larger pool in   *)
(* which both small records had the same nearest big record, so that the   *)
(* second had to take a farther one.                                       *)
C1_Witness ==
  /\ PreconditionHolds
  /\ MatcherReturned
  /\ Len(matches) = 2
  /\ Len(all_big_boys) = 3
  /\ \A a \in 1..Len(all_big_boys) :
       Le(Dist(matches[1].big, matches[2].small),
          Dist(all_big_boys[a], matches[2].small))
  /\ Lt(Dist(matches[1].big, matches[2].small),
        Dist(matches[2].big, matches[2].small))

(* C2: at every step the big record paired with the current small record   *)
(* is taken from the remaining pool, leaves it, and is at an absolute pre   *)
(* difference no larger than that of any record of the remaining pool.     *)
C2_NearestNeighbour ==
  [][PairPushed =>
       LET record == Head(small_boys)
           chosen == Last(matches').big
       IN /\ Last(matches').small = record
          /\ \E i \in 1..Len(big_boys) : big_boys[i] = chosen
          /\ \A i \in 1..Len(big_boys) :
               Le(Dist(chosen, record), Dist(big_boys[i], record))
          /\ Len(big_boys') = Len(big_boys) - 1
          /\ \A i \in 1..Len(big_boys') : big_boys'[i].id # chosen.id]_vars

(* After a second step, the pool still holds a record strictly farther     *)
(* from the small record just paired than the one chosen for it.           *)
C2_Witness ==
  /\ pc = "match"
  /\ Len(matches) = 2
  /\ \E i \in 1..Len(big_boys) :
       Lt(Dist(matches[2].big, matches[2].small),
          Dist(big_boys[i], matches[2].small))

(* C3 as stated: the matching loop returns a list of pairs only when       *)
(* |A| >= |B| > 0.                                                         *)
C3_MatcherPrecondition == MatcherReturned => PreconditionHolds

(* C3, amended: when B outnumbers A the matching loop never returns; it    *)
(* panics on the pop from the emptied pool after pairing |A| records, and  *)
(* only then.  When B is empty the loop does not fail on the pop: it       *)
(* returns no pairs, and no Output is ever pushed.                         *)
C3_PopFailsWhenOutnumbered ==
  /\ (pc # "load" /\ Len(all_small_boys) > Len(all_big_boys)) =>
       ~MatcherReturned /\ outputs = <<>>
  /\ panic = "pop" =>
       /\ Len(all_small_boys) > Len(all_big_boys)
       /\ Len(matches) = Len(all_big_boys)
       /\ big_boys = <<>>
  /\ (pc # "load" /\ all_small_boys = <<>>) =>
       /\ panic # "pop"
       /\ outputs = <<>>
       /\ MatcherReturned => matches = <<>>

(* The run ended on the pop after the whole (non-empty) pool was paired.   *)
C3_Witness ==
  /\ pc = "panicked"
  /\ panic = "pop"
  /\ Len(matches) = Len(all_big_boys)
  /\ Len(all_big_boys) >= 1

(* C4 as stated: in a run that ended in a fatal error, iterations.csv has  *)
(* not been written.                                                       *)
C4_NoPartialOutput == pc = "panicked" => ~csv_written

(* C5 as stated: with an iteration count of zero the run never creates the *)
(* iteration table, computes no cross-iteration aggregate and prints no    *)
(* report.                                                                 *)
C5_EmptyIterationSet ==
  (pc # "load" /\ iterations = 0) =>
    ~csv_written /\ ~means_computed /\ pc # "done"

(* The differences of the pairs' post values are finite and all the same:  *)
(* the standard error of the paired t-test is zero.                        *)
ZeroStandardError ==
  \A i, j \in 1..Len(matches) :
    /\ ~NonFinite(Sub(matches[i].small.post, matches[i].big.post))
    /\ Sub(matches[i].small.post, matches[i].big.post)
         = Sub(matches[j].small.post, matches[j].big.post)

(* The iteration's record is pushed with a non-finite t and the run goes   *)
(* on to the head of the loop.                                             *)
RecordedAsNonFinite ==
  /\ Len(outputs') = Len(outputs) + 1
  /\ SubSeq(outputs', 1, Len(outputs)) = outputs
  /\ NonFinite(Last(outputs').post_t_tvalue)
  /\ pc' = "loop"
  /\ panic' = "none"

(* C6 as stated: a t-test over fewer than two pairs, or with zero standard *)
(* error, is recorded with a non-finite value and the run continues.       *)
C6_DegenerateNotFatal ==
  [][(MatcherReturned /\ (Len(matches) < 2 \/ ZeroStandardError))
       => RecordedAsNonFinite]_vars

IsPermutationOf(s, t) ==
  /\ Len(s) = Len(t)
  /\ \E f \in Permutations(Len(t)) : \A i \in 1..Len(t) : s[i] = t[f[i]]

(* C7: every iteration starts its matching from the complete reference     *)
(* pool, in its original order, and a permutation of the complete          *)
(* to-be-matched population; no step changes the canonical populations.    *)
C7_IterationsDoNotInterfere ==
  [][/\ (pc = "loop" /\ pc' = "match") =>
          /\ big_boys' = all_big_boys
          /\ IsPermutationOf(small_boys', all_small_boys)
          /\ matches' = <<>>
     /\ pc # "load" =>
          /\ all_big_boys' = all_big_boys
          /\ all_small_boys' = all_small_boys]_vars

(* The second iteration stands at the start of its matching with the full  *)
(* pool, after the first consumed two of its records.                      *)
C7_Witness ==
  /\ pc = "match"
  /\ iter = 2
  /\ matches = <<>>
  /\ Len(small_boys) = 2
  /\ big_boys = all_big_boys
  /\ \E m \in past_matches : Len(m) = 2

(* The index in `pool` of the record with identity id.                     *)
IndexOf(pool, id) == CHOOSE i \in 1..Len(pool) : pool[i].id = id

(* The sequences that hold every element of S once.                       *)
RECURSIVE Orders(_)
Orders(S) ==
  IF S = {} THEN {<<>>}
  ELSE UNION {{<<x>> \o q : q \in Orders(S \ {x})} : x \in S}

(* Every order of the pool that a stable sort by the comparator of lines   *)
(* 125-131 is allowed to return: no record stands before one that sorts    *)
(* before it, and records neither of which sorts before the other stand in *)
(* the order they had in the pool.                                         *)
StableSortOutcomes(pool, record) ==
  LET n == Len(pool)
      before == [i \in 1..n |-> [j \in 1..n |-> SortsBefore(pool[i], pool[j], record)]]
  IN {[i \in 1..n |-> pool[f[i]]] :
        f \in {g \in Orders(1..n) :
                 \A i, j \in 1..n :
                   i < j =>
                     /\ ~before[g[j]][g[i]]
                     /\ ~before[g[i]][g[j]] => g[i] < g[j]}}

(* C8: a pass of the drain loop has one possible result, fixed by the pool *)
(* (its records and their order) and the current small record: whichever   *)
(* order the stable sort is allowed to return, the pair pushed and the     *)
(* pool left are the ones of the step, ties included.  Hence a matching    *)
(* loop that ends has produced the same sequence of pairs as every earlier *)
(* loop of the run that was given the to-be-matched population in the same *)
(* presentation order (each starts from the same pool).                    *)
C8_DeterministicGivenOrder ==
  [][/\ (pc = "match" /\ small_boys # <<>> /\ big_boys # <<>>) =>
          LET outcomes == StableSortOutcomes(big_boys, Head(small_boys))
          IN /\ outcomes # {}
             /\ \A q \in outcomes :
                  /\ matches' = Append(matches, [small |-> Head(small_boys),
                                                 big |-> Last(q)])
                  /\ big_boys' = Front(q)
                  /\ small_boys' = Tail(small_boys)
     /\ (~MatcherReturned /\ MatcherReturned') =>
          \A m \in past_matches :
            SmallOrder(m) = SmallOrder(matches') => m = matches']_vars

(* A second matching loop ended with the pairs of the first, the first     *)
(* small record having had two pool records at the same distance.          *)
C8_Witness ==
  /\ iter = 2
  /\ MatcherReturned
  /\ Len(matches) >= 2
  /\ matches \in past_matches
  /\ \E a \in 1..Len(all_big_boys) :
       /\ all_big_boys[a] # matches[1].big
       /\ Dist(all_big_boys[a], matches[1].small)
            = Dist(matches[1].big, matches[1].small)

(* C9 as stated: once the aggregation of a log of N >= 1 records is over,  *)
(* proportion_significant is k / N, k the number of records with a density *)
(* below 0.05 (a NaN density is not below it), and 0 <= k <= N.            *)
C9_ProportionOfEveryLog ==
  (means_computed /\ pc \in {"done", "panicked"} /\ Len(outputs) >= 1) =>
    LET k == Cardinality({i \in 1..Len(outputs) :
                            BelowThreshold(outputs[i].post_t_pvalue)})
    IN proportion = <<k, Len(outputs)>> /\ 0 <= k /\ k <= Len(outputs)

(* C10: among the pool records at the minimal distance from the current    *)
(* small record, the one paired is the one standing last in the pool's     *)
(* current order; the pool is left in descending order of distance, the    *)
(* records at equal distances in the order they stood in.                  *)
C10_TieTakesLastInPoolOrder ==
  [][PairPushed =>
       LET record == Head(small_boys)
           chosen == Last(matches').big
           tied == {i \in 1..Len(big_boys) :
                      \A j \in 1..Len(big_boys) :
                        Le(Dist(big_boys[i], record), Dist(big_boys[j], record))}
       IN /\ chosen = big_boys[CHOOSE i \in tied : \A j \in tied : j <= i]
          /\ \A i, j \in 1..Len(big_boys') :
               i < j =>
                 \/ Lt(Dist(big_boys'[j], record), Dist(big_boys'[i], record))
                 \/ /\ Dist(big_boys'[i], record) = Dist(big_boys'[j], record)
                    /\ IndexOf(big_boys, big_boys'[i].id)
                         < IndexOf(big_boys, big_boys'[j].id)]_vars

(* Pool [pre 2, pre 4], presentation order [pre 3, pre 4]: 3 is paired     *)
(* with 4, the later of the two records at distance 1, and 4 with 2.       *)
C10_Witness ==
  /\ MatcherReturned
  /\ Len(all_big_boys) = 2
  /\ all_big_boys[1].pre = F64(2)
  /\ all_big_boys[2].pre = F64(4)
  /\ Len(matches) = 2
  /\ matches[1].small.pre = F64(3) /\ matches[1].big = all_big_boys[2]
  /\ matches[2].small.pre = F64(4) /\ matches[2].big = all_big_boys[1]

=============================================================================
